---- MODULE Spec2Model ----
(***************************************************************************)
(* Model of main.py of aws-vpc-hello-world-setup: the four typer commands  *)
(* configure-vpc, remove-vpc, configure-subnet and remove-subnet, the      *)
(* params/ directory of JSON record files they keep, and the EC2 calls     *)
(* they issue.  Python strings are sequences of one-character strings, so  *)
(* that str.replace, str.lower and str.startswith are computed.            *)
(***************************************************************************)
EXTENDS Naturals, Sequences, FiniteSets, TLC

VARIABLES dir, remote, nextId, cmd, calls, err, obj, prevEmpty, naming

progVars == <<dir, remote, nextId, cmd, calls, err, obj, prevEmpty>>
vars == <<dir, remote, nextId, cmd, calls, err, obj, prevEmpty, naming>>

(*************************** bounds ****************************************)
\* identifiers the remote API hands out before the model stops creating
MaxIds == 9
\* longest resource name fed to the naming function
MaxNameLen == 3
\* longest prefix of a record file left behind by a write that is killed
MaxTrunc == 1

(*************************** Python values *********************************)
NoError == "no-error"

Str(s) == [ty |-> "str", s |-> s]

None == [ty |-> "NoneType", s |-> <<>>]

\* the ids an EC2 create call returns: unique strings
IdOf(n) == <<"i", "d", ToString(n)>>

\* str.lower, on the characters that occur in the type tags
Lower(c) ==
  CASE c = "V" -> "v" [] c = "P" -> "p" [] c = "C" -> "c" [] c = "S" -> "s"
    [] c = "U" -> "u" [] c = "B" -> "b" [] c = "N" -> "n" [] c = "E" -> "e"
    [] c = "T" -> "t" [] OTHER -> c

lower(s) == [i \in 1..Len(s) |-> Lower(s[i])]

\* a replace that drops the old character
replace_drop(s, old, new) ==
  LET keep(i) == Cardinality({ j \in 1..i : s[j] # old })
  IN [i \in 1..Cardinality({ j \in 1..Len(s) : s[j] # old }) |->
        s[CHOOSE j \in 1..Len(s) : s[j] # old /\ keep(j) = i]]

\* str.replace(old, new) for one-character old and new
replace(s, old, new) == [i \in 1..Len(s) |-> IF s[i] = old THEN new ELSE s[i]]

startswith(s, p) == Len(s) >= Len(p) /\ SubSeq(s, 1, Len(p)) = p

TypeVpc == <<"v", "p", "c">>

TypeSubnet == <<"s", "u", "b", "n", "e", "t">>

ConfigSuffix == <<"_", "c", "o", "n", "f", "i", "g", ".", "j", "s", "o", "n">>

\* f"{resource_type.lower()}_{resource_name.replace('-', '_')}_config.json"
_parse_config_file_name(resource_name, resource_type) ==
  lower(resource_type) \o <<"_">> \o replace(resource_name, "-", "_") \o ConfigSuffix

(*************************** inputs ****************************************)
\* VPC names given on the command line; the two differ only by - against _
CmdNames == { <<"a", "-", "b">>, <<"a", "_", "b">> }

Region == <<"r">>

VpcCidr == <<"1", "0">>

SgName == <<"g">>

IgwName == <<"w">>

CidrSubstitute == <<"5">>

AzPostfix == <<"z">>

RtName == <<"t">>

\* subnet name given on the command line
SubnetNames == { <<"s", "-", "n">> }

FileNames == { _parse_config_file_name(n, TypeVpc) : n \in CmdNames }
               \cup { _parse_config_file_name(n, TypeSubnet) : n \in SubnetNames }

(*************************** record files **********************************)
\* a path of params/ with no file
NoFile == [exists |-> FALSE, pairs |-> <<>>, closed |-> FALSE]

VpcKeys == <<"region", "vpc_cidr", "vpc_name", "sg_name", "igw_name", "vpc_id", "sg_id", "igw_id">>

SubnetKeys == VpcKeys \o <<"subnet_name", "cidr_substitute", "az_postfix", "rt_name",
                           "subnet_id", "rt_id", "subnet_rt_association_id">>

Range(s) == { s[i] : i \in 1..Len(s) }

\* VpcConfig(region=..., vpc_cidr=..., vpc_name=..., sg_name=..., igw_name=...)
VpcConfig(region, vpc_cidr, vpc_name, sg_name, igw_name) ==
  [k \in Range(VpcKeys) |->
     CASE k = "region" -> Str(region)
       [] k = "vpc_cidr" -> Str(vpc_cidr)
       [] k = "vpc_name" -> Str(vpc_name)
       [] k = "sg_name" -> Str(sg_name)
       [] k = "igw_name" -> Str(igw_name)
       [] OTHER -> None]

\* SubnetConfig(vpc_config=..., subnet_name=..., cidr_substitute=..., az_postfix=..., rt_name=...)
SubnetConfig(vpc_config, subnet_name, cidr_substitute, az_postfix, rt_name) ==
  [k \in Range(SubnetKeys) |->
     CASE k \in DOMAIN vpc_config -> vpc_config[k]
       [] k = "subnet_name" -> Str(subnet_name)
       [] k = "cidr_substitute" -> Str(cidr_substitute)
       [] k = "az_postfix" -> Str(az_postfix)
       [] k = "rt_name" -> Str(rt_name)
       [] OTHER -> None]

\* obj.attr = value
SetAttr(o, attr, value) ==
  [k \in DOMAIN o \cup {attr} |-> IF k = attr THEN value ELSE o[k]]

\* the order in which __dict__ lists the attributes
DictOrder(o) == IF DOMAIN o = Range(VpcKeys) THEN VpcKeys ELSE SubnetKeys

\* the JSON text of one Python value
ToJson(v) == IF v.ty = "NoneType" THEN [t |-> "null", s |-> <<>>]
             ELSE [t |-> "string", s |-> v.s]

\* the Python value of one JSON value
FromJson(j) == IF j.t = "null" THEN None ELSE Str(j.s)

\* a dump of the constructor's arguments only
json_dump_args_only(o) ==
  [exists |-> TRUE,
   pairs |-> [i \in 1..Len(DictOrder(o)) |->
                <<DictOrder(o)[i],
                  IF DictOrder(o)[i] \in {"vpc_id", "sg_id", "igw_id", "subnet_id", "rt_id",
                                          "subnet_rt_association_id"}
                  THEN ToJson(None) ELSE ToJson(o[DictOrder(o)[i]])>>],
   closed |-> TRUE]

\* json.dump(config.__dict__, file): the members in order, then the closing brace
json_dump(o) ==
  [exists |-> TRUE,
   pairs |-> [i \in 1..Len(DictOrder(o)) |-> <<DictOrder(o)[i], ToJson(o[DictOrder(o)[i]])>>],
   closed |-> TRUE]

\* json.load(file): a text that stops before its closing brace does not parse;
\* the members json.dump wrote have distinct keys
json_load(f) ==
  IF ~f.closed THEN [err |-> "JSONDecodeError", val |-> <<>>]
  ELSE [err |-> NoError,
        val |-> [k \in { f.pairs[i][1] : i \in 1..Len(f.pairs) } |->
                   FromJson(f.pairs[CHOOSE i \in 1..Len(f.pairs) : f.pairs[i][1] = k][2])]]

\* VpcConfig.from_config(config)
VpcConfig_from_config(config) ==
  IF DOMAIN config = Range(VpcKeys) THEN [err |-> NoError, cfg |-> config]
  ELSE [err |-> "MalformedConfigError", cfg |-> <<>>]

\* SubnetConfig.from_config(config)
SubnetConfig_from_config(config) ==
  IF DOMAIN config = Range(SubnetKeys) THEN [err |-> NoError, cfg |-> config]
  ELSE [err |-> "MalformedConfigError", cfg |-> <<>>]

\* a _load_config that hands back an empty record when the file is missing
_load_config_default(d, config_file_name) ==
  IF ~d[config_file_name].exists
  THEN [err |-> NoError,
        cfg |-> IF startswith(config_file_name, TypeVpc)
                THEN VpcConfig(<<>>, <<>>, <<>>, <<>>, <<>>)
                ELSE SubnetConfig(VpcConfig(<<>>, <<>>, <<>>, <<>>, <<>>), <<>>, <<>>, <<>>, <<>>)]
  ELSE [err |-> NoError, cfg |-> json_load(d[config_file_name]).val]

\* open(config_path, "r"), json.load, then from_config by the file name's prefix
_load_config(d, config_file_name) ==
  IF ~d[config_file_name].exists THEN [err |-> "FileNotFoundError", cfg |-> <<>>]
  ELSE LET config == json_load(d[config_file_name])
       IN IF config.err # NoError THEN [err |-> config.err, cfg |-> <<>>]
          ELSE IF startswith(config_file_name, TypeVpc)
               THEN VpcConfig_from_config(config.val)
          ELSE IF startswith(config_file_name, TypeSubnet)
               THEN SubnetConfig_from_config(config.val)
          ELSE [err |-> NoError, cfg |-> <<>>]

\* with open(config_path, "w") as file: json.dump(config.__dict__, file)
write_config(d, config_file_name, o) ==
  [d EXCEPT ![config_file_name] = json_dump(o)]

\* os.remove(local_dir.joinpath(config_file_name))
os_remove(d, config_file_name) ==
  [d EXCEPT ![config_file_name] = NoFile]

(*************************** the EC2 client ********************************)
\* the run of one command: the remote resources, the next id the API hands
\* out, the calls issued so far, the exception raised, the call that is to
\* fail (0: none) and the value the last call returned
Run(failAt) ==
  [remote |-> remote, nextId |-> nextId, calls |-> <<>>, err |-> NoError,
   failAt |-> failAt, ret |-> None]

\* one call to the EC2 API with the record cfg: skipped once an exception is
\* on its way up; otherwise logged, and either it raises or it takes effect
ApiCall(st, api, kind, cfg, id) ==
  LET ok == Len(st.calls) + 1 # st.failAt
      entry == [api |-> api, kind |-> kind, id |-> Str(id), ok |-> ok, cfg |-> cfg]
  IN IF st.err # NoError THEN st
     ELSE [st EXCEPT
             !.calls = Append(@, entry),
             !.err = IF ok THEN NoError ELSE "RemoteAPIError",
             !.remote = IF ok /\ kind = "create" THEN @ \cup {id}
                        ELSE IF ok /\ kind = "delete" THEN @ \ {id} ELSE @,
             !.nextId = IF ok /\ kind = "create" THEN @ + 1 ELSE @,
             !.ret = IF ok /\ kind = "create" THEN Str(id) ELSE None]

\* commands.create_vpc(ec2_client, vpc_config)
create_vpc(st, cfg) == ApiCall(st, "CreateVpc", "create", cfg, IdOf(st.nextId))

\* commands.create_vpc_security_group(ec2_client, vpc_config)
create_vpc_security_group(st, cfg) ==
  ApiCall(st, "CreateSecurityGroup", "create", cfg, IdOf(st.nextId))

\* commands.create_internet_gateway(ec2_client, vpc_config): create, then attach
create_internet_gateway(st, cfg) ==
  LET s1 == ApiCall(st, "CreateInternetGateway", "create", cfg, IdOf(st.nextId))
      s2 == ApiCall(s1, "AttachInternetGateway", "link", cfg, s1.ret.s)
  IN [s2 EXCEPT !.ret = s1.ret]

\* commands.delete_internet_gateway(ec2_client, vpc_config): detach, then delete
delete_internet_gateway(st, cfg) ==
  LET s1 == ApiCall(st, "DetachInternetGateway", "unlink", cfg, cfg["igw_id"].s)
  IN ApiCall(s1, "DeleteInternetGateway", "delete", cfg, cfg["igw_id"].s)

\* commands.delete_security_group(ec2_client, vpc_config)
delete_security_group(st, cfg) ==
  ApiCall(st, "DeleteSecurityGroup", "delete", cfg, cfg["sg_id"].s)

\* commands.delete_vpc(ec2_client, vpc_config)
delete_vpc(st, cfg) == ApiCall(st, "DeleteVpc", "delete", cfg, cfg["vpc_id"].s)

\* commands.create_subnet(ec2_client, subnet_config)
create_subnet(st, cfg) == ApiCall(st, "CreateSubnet", "create", cfg, IdOf(st.nextId))

\* commands.create_route_table(ec2_client, subnet_config, is_public)
create_route_table(st, cfg, is_public) ==
  ApiCall(st, "CreateRouteTable", "create", cfg, IdOf(st.nextId))

\* commands.create_subnet_route_table_association(ec2_client, subnet_config)
create_subnet_route_table_association(st, cfg) ==
  ApiCall(st, "AssociateRouteTable", "create", cfg, IdOf(st.nextId))

\* commands.delete_subnet_route_table_association(ec2_client, subnet_config)
delete_subnet_route_table_association(st, cfg) ==
  ApiCall(st, "DisassociateRouteTable", "delete", cfg, cfg["subnet_rt_association_id"].s)

\* commands.delete_route_table(ec2_client, subnet_config)
delete_route_table(st, cfg) ==
  ApiCall(st, "DeleteRouteTable", "delete", cfg, cfg["rt_id"].s)

\* commands.delete_subnet(ec2_client, subnet_config)
delete_subnet(st, cfg) == ApiCall(st, "DeleteSubnet", "delete", cfg, cfg["subnet_id"].s)

(*************************** the commands **********************************)
\* lines 49-59: create VPC, security group, internet gateway; each id is
\* stored in the record before the next call
vpc_create_steps(st, c0) ==
  LET s1 == create_vpc(st, c0)
      c1 == SetAttr(c0, "vpc_id", s1.ret)
      s2 == create_vpc_security_group(s1, c1)
      c2 == SetAttr(c1, "sg_id", s2.ret)
      s3 == create_internet_gateway(s2, c2)
      c3 == SetAttr(c2, "igw_id", s3.ret)
  IN [st |-> s3, cfg |-> IF s1.err # NoError THEN c0
                         ELSE IF s2.err # NoError THEN c1
                         ELSE IF s3.err # NoError THEN c2 ELSE c3]

\* the deletes with the security group first
vpc_delete_steps_sg_first(st, cfg) ==
  delete_vpc(delete_internet_gateway(delete_security_group(st, cfg), cfg), cfg)

\* lines 81-88: delete internet gateway, security group, VPC
vpc_delete_steps(st, cfg) ==
  delete_vpc(delete_security_group(delete_internet_gateway(st, cfg), cfg), cfg)

\* lines 119-129: create subnet, route table, association
subnet_create_steps(st, c0, is_public) ==
  LET s1 == create_subnet(st, c0)
      c1 == SetAttr(c0, "subnet_id", s1.ret)
      s2 == create_route_table(s1, c1, is_public)
      c2 == SetAttr(c1, "rt_id", s2.ret)
      s3 == create_subnet_route_table_association(s2, c2)
      c3 == SetAttr(c2, "subnet_rt_association_id", s3.ret)
  IN [st |-> s3, cfg |-> IF s1.err # NoError THEN c0
                         ELSE IF s2.err # NoError THEN c1
                         ELSE IF s3.err # NoError THEN c2 ELSE c3]

\* the deletes with the route table before its association
subnet_delete_steps_rt_first(st, cfg) ==
  delete_subnet(delete_subnet_route_table_association(delete_route_table(st, cfg), cfg), cfg)

\* lines 151-158: delete association, route table, subnet
subnet_delete_steps(st, cfg) ==
  delete_subnet(delete_route_table(delete_subnet_route_table_association(st, cfg), cfg), cfg)

\* what a command leaves behind when an exception ends it at the load
Raised(d, st, e) == [dir |-> d, st |-> [st EXCEPT !.err = e], obj |-> <<>>]

\* a configure_vpc that undoes its creates when a call fails
configure_vpc_rollback(d, st, region, vpc_cidr, vpc_name, sg_name, igw_name) ==
  LET vpc_config == VpcConfig(region, vpc_cidr, vpc_name, sg_name, igw_name)
      r == vpc_create_steps(st, vpc_config)
      vpc_config_file_name == _parse_config_file_name(vpc_name, TypeVpc)
  IN [dir |-> IF r.st.err = NoError THEN write_config(d, vpc_config_file_name, r.cfg) ELSE d,
      st |-> IF r.st.err = NoError THEN r.st ELSE [r.st EXCEPT !.remote = st.remote],
      obj |-> r.cfg]

\* a configure_vpc that opens the record file with mode "x"
configure_vpc_exclusive(d, st, region, vpc_cidr, vpc_name, sg_name, igw_name) ==
  LET vpc_config == VpcConfig(region, vpc_cidr, vpc_name, sg_name, igw_name)
      r == vpc_create_steps(st, vpc_config)
      vpc_config_file_name == _parse_config_file_name(vpc_name, TypeVpc)
  IN IF r.st.err = NoError /\ d[vpc_config_file_name].exists
     THEN [dir |-> d, st |-> [r.st EXCEPT !.err = "FileExistsError"], obj |-> r.cfg]
     ELSE [dir |-> IF r.st.err = NoError THEN write_config(d, vpc_config_file_name, r.cfg) ELSE d,
           st |-> r.st, obj |-> r.cfg]

configure_vpc(d, st, region, vpc_cidr, vpc_name, sg_name, igw_name) ==
  LET vpc_config == VpcConfig(region, vpc_cidr, vpc_name, sg_name, igw_name)
      r == vpc_create_steps(st, vpc_config)
      vpc_config_file_name == _parse_config_file_name(vpc_name, TypeVpc)
  IN [dir |-> IF r.st.err = NoError THEN write_config(d, vpc_config_file_name, r.cfg) ELSE d,
      st |-> r.st, obj |-> r.cfg]

\* a remove_vpc that removes the record file whatever the deletes did
remove_vpc_always_unlink(d, st, vpc_name) ==
  LET vpc_config_file_name == _parse_config_file_name(vpc_name, TypeVpc)
      ld == _load_config(d, vpc_config_file_name)
      s == vpc_delete_steps(st, ld.cfg)
  IN IF ld.err # NoError THEN Raised(d, st, ld.err)
     ELSE [dir |-> os_remove(d, vpc_config_file_name), st |-> s, obj |-> ld.cfg]

remove_vpc(d, st, vpc_name) ==
  LET vpc_config_file_name == _parse_config_file_name(vpc_name, TypeVpc)
      ld == _load_config(d, vpc_config_file_name)
      s == vpc_delete_steps(st, ld.cfg)
  IN IF ld.err # NoError THEN Raised(d, st, ld.err)
     ELSE [dir |-> IF s.err = NoError THEN os_remove(d, vpc_config_file_name) ELSE d,
           st |-> s, obj |-> ld.cfg]

\* a configure_subnet that saves the record whatever the creates did
configure_subnet_always_save(d, st, vpc_name, subnet_name, cidr_substitute, az_postfix, rt_name, is_public) ==
  LET vpc_config_file_name == _parse_config_file_name(vpc_name, TypeVpc)
      ld == _load_config(d, vpc_config_file_name)
      subnet_config == SubnetConfig(ld.cfg, subnet_name, cidr_substitute, az_postfix, rt_name)
      r == subnet_create_steps(st, subnet_config, is_public)
      subnet_config_file_name == _parse_config_file_name(subnet_name, TypeSubnet)
  IN IF ld.err # NoError THEN Raised(d, st, ld.err)
     ELSE [dir |-> write_config(d, subnet_config_file_name, r.cfg), st |-> r.st, obj |-> r.cfg]

configure_subnet(d, st, vpc_name, subnet_name, cidr_substitute, az_postfix, rt_name, is_public) ==
  LET vpc_config_file_name == _parse_config_file_name(vpc_name, TypeVpc)
      ld == _load_config(d, vpc_config_file_name)
      subnet_config == SubnetConfig(ld.cfg, subnet_name, cidr_substitute, az_postfix, rt_name)
      r == subnet_create_steps(st, subnet_config, is_public)
      subnet_config_file_name == _parse_config_file_name(subnet_name, TypeSubnet)
  IN IF ld.err # NoError THEN Raised(d, st, ld.err)
     ELSE [dir |-> IF r.st.err = NoError THEN write_config(d, subnet_config_file_name, r.cfg) ELSE d,
           st |-> r.st, obj |-> r.cfg]

remove_subnet(d, st, subnet_name) ==
  LET subnet_config_file_name == _parse_config_file_name(subnet_name, TypeSubnet)
      ld == _load_config(d, subnet_config_file_name)
      s == subnet_delete_steps(st, ld.cfg)
  IN IF ld.err # NoError THEN Raised(d, st, ld.err)
     ELSE [dir |-> IF s.err = NoError THEN os_remove(d, subnet_config_file_name) ELSE d,
           st |-> s, obj |-> ld.cfg]

(*************************** the state machine *****************************)
\* the command line of the invocation that ran last
Invocation(op, name, lookup, target) ==
  [op |-> op, name |-> name, lookup |-> lookup, target |-> target]

NamingIdle == [a |-> <<TypeVpc, <<>>>>, b |-> <<TypeVpc, <<>>>>, fa |-> <<>>, fb |-> <<>>,
               applied |-> FALSE]

DirEmpty(d) == \A f \in DOMAIN d : ~d[f].exists

InitProgram ==
  /\ dir = [f \in FileNames |-> NoFile]
  /\ remote = {}
  /\ nextId = 1
  /\ cmd = Invocation("start", <<>>, <<>>, <<>>)
  /\ calls = <<>>
  /\ err = NoError
  /\ obj = <<>>
  /\ prevEmpty = TRUE

Init == InitProgram /\ naming = NamingIdle

\* the process exits: its effects on params/ and on the remote side stay
Exit(result, c) ==
  \E r \in {result} :
    /\ dir' = r.dir
    /\ remote' = r.st.remote
    /\ nextId' = r.st.nextId
    /\ calls' = r.st.calls
    /\ err' = r.st.err
    /\ obj' = r.obj
    /\ cmd' = c
    /\ prevEmpty' = DirEmpty(dir)
    /\ UNCHANGED naming

IdsLeft == nextId + 2 <= MaxIds

ConfigureVpc ==
  \E vpc_name \in CmdNames, failAt \in 0..4 :
    /\ IdsLeft
    /\ Exit(configure_vpc(dir, Run(failAt), Region, VpcCidr, vpc_name, SgName, IgwName),
            Invocation("configure-vpc", vpc_name, <<>>, _parse_config_file_name(vpc_name, TypeVpc)))

RemoveVpc ==
  \E vpc_name \in CmdNames, failAt \in 0..4 :
    Exit(remove_vpc(dir, Run(failAt), vpc_name),
         Invocation("remove-vpc", vpc_name, _parse_config_file_name(vpc_name, TypeVpc),
                    _parse_config_file_name(vpc_name, TypeVpc)))

ConfigureSubnet ==
  \E vpc_name \in CmdNames, subnet_name \in SubnetNames, is_public \in BOOLEAN, failAt \in 0..3 :
    /\ IdsLeft
    /\ Exit(configure_subnet(dir, Run(failAt), vpc_name, subnet_name, CidrSubstitute,
                             AzPostfix, RtName, is_public),
            Invocation("configure-subnet", subnet_name, _parse_config_file_name(vpc_name, TypeVpc),
                       _parse_config_file_name(subnet_name, TypeSubnet)))

RemoveSubnet ==
  \E subnet_name \in SubnetNames, failAt \in 0..3 :
    Exit(remove_subnet(dir, Run(failAt), subnet_name),
         Invocation("remove-subnet", subnet_name, _parse_config_file_name(subnet_name, TypeSubnet),
                    _parse_config_file_name(subnet_name, TypeSubnet)))

Next == ConfigureVpc \/ RemoveVpc \/ ConfigureSubnet \/ RemoveSubnet

Spec == Init /\ [][Next]_vars

(*************************** a write that is killed ************************)
\* open(path, "w") has emptied the file and json.dump has written k members
\* of the record when the process dies
Truncated(f, k) == [exists |-> TRUE, pairs |-> SubSeq(f.pairs, 1, k), closed |-> FALSE]

Killed(r, target, k) ==
  [dir |-> [r.dir EXCEPT ![target] = Truncated(@, k)],
   st |-> [r.st EXCEPT !.err = "Killed"], obj |-> r.obj]

ConfigureVpcKilled ==
  \E vpc_name \in CmdNames, k \in 0..MaxTrunc :
    LET r == configure_vpc(dir, Run(0), Region, VpcCidr, vpc_name, SgName, IgwName)
        target == _parse_config_file_name(vpc_name, TypeVpc)
    IN /\ IdsLeft
       /\ Exit(Killed(r, target, k), Invocation("configure-vpc", vpc_name, <<>>, target))

ConfigureSubnetKilled ==
  \E vpc_name \in CmdNames, subnet_name \in SubnetNames, k \in 0..MaxTrunc :
    LET r == configure_subnet(dir, Run(0), vpc_name, subnet_name, CidrSubstitute,
                              AzPostfix, RtName, TRUE)
        lookup == _parse_config_file_name(vpc_name, TypeVpc)
        target == _parse_config_file_name(subnet_name, TypeSubnet)
    IN /\ IdsLeft
       /\ r.st.err = NoError
       /\ Exit(Killed(r, target, k), Invocation("configure-subnet", subnet_name, lookup, target))

NextKilled ==
  \/ ConfigureVpc \/ RemoveVpc \/ ConfigureSubnet \/ RemoveSubnet
  \/ ConfigureVpcKilled \/ ConfigureSubnetKilled

SpecKilled == Init /\ [][NextKilled]_vars

(*************************** the naming function alone *********************)
NameChars == {"a", "-", "_"}

Names == UNION { [1..n -> NameChars] : n \in 0..MaxNameLen }

Types == {TypeVpc, TypeSubnet}

InitNaming ==
  /\ InitProgram
  /\ naming \in { [a |-> <<t1, n1>>, b |-> <<t2, n2>>, fa |-> <<>>, fb |-> <<>>, applied |-> FALSE] :
                    t1 \in Types, n1 \in Names, t2 \in Types, n2 \in Names }

ApplyNaming ==
  /\ ~naming.applied
  /\ naming' = [naming EXCEPT !.fa = _parse_config_file_name(naming.a[2], naming.a[1]),
                              !.fb = _parse_config_file_name(naming.b[2], naming.b[1]),
                              !.applied = TRUE]
  /\ UNCHANGED progVars

NextNaming == ApplyNaming

SpecNaming == InitNaming /\ [][NextNaming]_vars

(*************************** properties ************************************)
Loaders == {"remove-vpc", "configure-subnet", "remove-subnet"}

Configures == {"configure-vpc", "configure-subnet"}

Removes == {"remove-vpc", "remove-subnet"}

Apis(log) == [i \in 1..Len(log) |-> log[i].api]

IsPrefix(p, q) == Len(p) <= Len(q) /\ SubSeq(q, 1, Len(p)) = p

AllOk(log) == \A i \in 1..Len(log) : log[i].ok

\* every call but the last succeeded, the last one raised
StopsAtFailure(log) == log # <<>> /\ \A i \in 1..Len(log) : log[i].ok <=> i < Len(log)

\* the ids the successful create calls of a log returned
Created(log) ==
  { log[i].id.s : i \in { j \in 1..Len(log) : log[j].ok /\ log[j].kind = "create" } }

OwnIdKeys(v) == IF "subnet_id" \in DOMAIN v
                THEN {"subnet_id", "rt_id", "subnet_rt_association_id"}
                ELSE {"vpc_id", "sg_id", "igw_id"}

\* the ids a remove command would delete on reading this file
RecordIds(f) ==
  IF ~f.exists \/ ~f.closed THEN {}
  ELSE LET v == json_load(f).val
       IN { v[k].s : k \in { x \in DOMAIN v \cap OwnIdKeys(v) : v[x] # None } }

Addressable(d) == UNION { RecordIds(d[f]) : f \in DOMAIN d }

\* the remote resources that no record file refers to
Orphans(d, r) == r \ Addressable(d)

HandedOut == { IdOf(n) : n \in 1..(nextId - 1) }

VpcCreateOrder == <<"CreateVpc", "CreateSecurityGroup", "CreateInternetGateway", "AttachInternetGateway">>

VpcRemoveOrder == <<"DetachInternetGateway", "DeleteInternetGateway", "DeleteSecurityGroup", "DeleteVpc">>

SubnetCreateOrder == <<"CreateSubnet", "CreateRouteTable", "AssociateRouteTable">>

SubnetRemoveOrder == <<"DisassociateRouteTable", "DeleteRouteTable", "DeleteSubnet">>

InverseApi(a) ==
  CASE a = "CreateVpc" -> "DeleteVpc"
    [] a = "CreateSecurityGroup" -> "DeleteSecurityGroup"
    [] a = "CreateInternetGateway" -> "DeleteInternetGateway"
    [] a = "AttachInternetGateway" -> "DetachInternetGateway"
    [] a = "CreateSubnet" -> "DeleteSubnet"
    [] a = "CreateRouteTable" -> "DeleteRouteTable"
    [] a = "AssociateRouteTable" -> "DisassociateRouteTable"
    [] OTHER -> "none"

\* C1: a command that starts by looking up a record whose file does not
\* exist fails with the not-found error of open() (FileNotFoundError),
\* issues no remote call and leaves params/ and the remote side as they were.
C1_MissingRecordStep ==
  (cmd'.op \in Loaders /\ ~dir[cmd'.lookup].exists)
    => /\ err' = "FileNotFoundError"
       /\ calls' = <<>>
       /\ dir' = dir
       /\ remote' = remote

C1_MissingRecord == [][C1_MissingRecordStep]_vars

C1_Witness ==
  /\ cmd.op = "remove-vpc"
  /\ err = "FileNotFoundError"
  /\ ~DirEmpty(dir)
  /\ remote # {}

\* C2: from an empty params/, a successful configure-vpc followed at once by
\* a successful remove-vpc of the same name leaves params/ empty, and the
\* four calls of configure-vpc are undone by four calls of remove-vpc on the
\* same resources in the reverse order.
C2_ConfigureThenRemoveStep ==
  (/\ cmd.op = "configure-vpc" /\ err = NoError /\ prevEmpty
   /\ cmd'.op = "remove-vpc" /\ cmd'.name = cmd.name /\ err' = NoError)
    => /\ DirEmpty(dir')
       /\ Apis(calls) = VpcCreateOrder
       /\ Apis(calls') = VpcRemoveOrder
       /\ AllOk(calls) /\ AllOk(calls')
       /\ \A i \in 1..4 : /\ calls'[i].api = InverseApi(calls[5 - i].api)
                          /\ calls'[i].id = calls[5 - i].id
       /\ Created(calls) \cap remote' = {}

C2_ConfigureThenRemove == [][C2_ConfigureThenRemoveStep]_vars

C2_Witness ==
  /\ cmd.op = "remove-vpc"
  /\ err = NoError
  /\ DirEmpty(dir)
  /\ Len(calls) = 4
  /\ nextId = 4
  /\ remote = {}

\* C3: a remove command whose remote delete fails stops there: the failed
\* call is the last one issued and the record file stays, unchanged; the
\* file goes only when every delete of the command has succeeded.
C3_RemoveKeepsRecordStep ==
  (cmd'.op \in Removes)
    => /\ (err' = "RemoteAPIError"
             => /\ dir' = dir
                /\ dir'[cmd'.lookup].exists
                /\ StopsAtFailure(calls'))
       /\ (~AllOk(calls') => err' = "RemoteAPIError")
       /\ (dir[cmd'.lookup].exists /\ ~dir'[cmd'.lookup].exists
             => /\ AllOk(calls')
                /\ Apis(calls') = IF cmd'.op = "remove-vpc" THEN VpcRemoveOrder
                                  ELSE SubnetRemoveOrder)

C3_RemoveKeepsRecord == [][C3_RemoveKeepsRecordStep]_vars

C3_Witness ==
  /\ cmd.op = "remove-vpc"
  /\ err = "RemoteAPIError"
  /\ Len(calls) = 3
  /\ dir[cmd.lookup].exists
  /\ obj["igw_id"].s \notin remote
  /\ obj["sg_id"].s \in remote

\* C4: a command that looks up a record file that does not parse fails with
\* MalformedConfigError and issues no remote call.
C4_MalformedConfigError ==
  (cmd.op \in Loaders /\ dir[cmd.lookup].exists /\ ~dir[cmd.lookup].closed)
    => (err = "MalformedConfigError" /\ calls = <<>>)

\* C5: the file name is <type>_<name with - replaced by _>_config.json, and
\* for the types vpc and subnet two (type, name) pairs get the same file
\* name only if the types are equal and the names are equal up to - and _.
SameUpToHyphen(n1, n2) ==
  /\ Len(n1) = Len(n2)
  /\ \A i \in 1..Len(n1) : n1[i] = n2[i] \/ {n1[i], n2[i]} \subseteq {"-", "_"}

HasForm(f, t, n) ==
  /\ Len(f) = Len(t) + 1 + Len(n) + Len(ConfigSuffix)
  /\ SubSeq(f, 1, Len(t)) = t
  /\ f[Len(t) + 1] = "_"
  /\ \A i \in 1..Len(n) : f[Len(t) + 1 + i] = (IF n[i] = "-" THEN "_" ELSE n[i])
  /\ SubSeq(f, Len(t) + Len(n) + 2, Len(f)) = ConfigSuffix

C5_NamingInjective ==
  naming.applied
    => /\ HasForm(naming.fa, naming.a[1], naming.a[2])
       /\ HasForm(naming.fb, naming.b[1], naming.b[2])
       /\ (naming.fa = naming.fb
             => /\ naming.a[1] = naming.b[1]
                /\ SameUpToHyphen(naming.a[2], naming.b[2]))

C5_Witness ==
  /\ naming.applied
  /\ naming.fa = naming.fb
  /\ naming.a # naming.b

FullyProvisioned(fname) ==
  LET f == dir[fname]
      v == json_load(f).val
  IN /\ f.closed
     /\ DOMAIN v = (IF startswith(fname, TypeVpc) THEN Range(VpcKeys) ELSE Range(SubnetKeys))
     /\ \A k \in DOMAIN v : k \in {"vpc_id", "sg_id", "igw_id", "subnet_id", "rt_id",
                                   "subnet_rt_association_id"}
                              => v[k] # None /\ v[k].s \in HandedOut

C7_RecordsFullyProvisioned ==
  /\ \A fname \in FileNames : dir[fname].exists => FullyProvisioned(fname)
  /\ (cmd.op \in Configures /\ err = NoError)
       => LET v == json_load(dir[cmd.target]).val
          IN /\ AllOk(calls)
             /\ cmd.op = "configure-vpc"
                  => v["vpc_id"] = calls[1].id /\ v["sg_id"] = calls[2].id
                     /\ v["igw_id"] = calls[3].id
             /\ cmd.op = "configure-subnet"
                  => v["subnet_id"] = calls[1].id /\ v["rt_id"] = calls[2].id
                     /\ v["subnet_rt_association_id"] = calls[3].id

C7_Witness ==
  /\ cmd.op = "configure-subnet"
  /\ err = "RemoteAPIError"
  /\ Len(calls) = 3
  /\ ~dir[cmd.target].exists
  /\ \E fname \in FileNames : dir[fname].exists

\* C8: configure-subnet calls create subnet, create route table, associate,
\* in that order, each call seeing in the record the ids the earlier calls
\* returned; remove-subnet calls delete association, delete route table,
\* delete subnet, the reverse order, on the ids of the record.
C8_SubnetOrder ==
  /\ (cmd.op = "configure-subnet" /\ err # "FileNotFoundError")
       => /\ calls # <<>>
          /\ IsPrefix(Apis(calls), SubnetCreateOrder)
          /\ calls[1].cfg["subnet_id"] = None
          /\ \A i \in 1..Len(calls) :
               /\ i >= 2 => calls[1].ok /\ calls[i].cfg["subnet_id"] = calls[1].id
               /\ i < 2 => calls[i].cfg["rt_id"] = None
               /\ i >= 3 => calls[2].ok /\ calls[i].cfg["rt_id"] = calls[2].id
               /\ calls[i].cfg["subnet_rt_association_id"] = None
  /\ (cmd.op = "remove-subnet" /\ err # "FileNotFoundError")
       => /\ calls # <<>>
          /\ IsPrefix(Apis(calls), SubnetRemoveOrder)
          /\ \A i \in 1..Len(calls) :
               /\ calls[i].api = InverseApi(SubnetCreateOrder[4 - i])
               /\ calls[i].id = obj[<<"subnet_rt_association_id", "rt_id", "subnet_id">>[i]]
               /\ i >= 2 => calls[i - 1].ok

C8_Witness ==
  /\ cmd.op = "remove-subnet"
  /\ err = NoError
  /\ Len(calls) = 3

\* C9: a configure command whose create call fails stops at that call,
\* deletes nothing, and writes no record file: what it created stays on the
\* remote side with no record referring to it, and no later command changes
\* that.
C9_NoRollbackStep ==
  /\ (cmd'.op \in Configures /\ err' = "RemoteAPIError")
       => /\ StopsAtFailure(calls')
          /\ \A i \in 1..Len(calls') : calls'[i].kind \notin {"delete", "unlink"}
          /\ dir' = dir
          /\ remote' = remote \cup Created(calls')
          /\ Created(calls') \cap remote = {}
          /\ Created(calls') \subseteq Orphans(dir', remote')
  /\ Orphans(dir, remote) \subseteq Orphans(dir', remote')

C9_NoRollback == [][C9_NoRollbackStep]_vars

C9_Witness ==
  /\ cmd.op = "configure-vpc"
  /\ err = "RemoteAPIError"
  /\ Len(calls) = 3
  /\ Cardinality(Created(calls)) = 2
  /\ Created(calls) \subseteq Orphans(dir, remote)

\* C10: a configure command never looks for an existing record: when its
\* file is already there and no remote call fails it succeeds and overwrites
\* the file with the new ids, the old ids still on the remote side become
\* orphans, and a remove command deletes only the ids of the record it reads.
C10_OverwriteStep ==
  /\ (/\ cmd'.op \in Configures
      /\ dir[cmd'.target].exists
      /\ calls' # <<>>
      /\ AllOk(calls'))
       => /\ err' = NoError
          /\ RecordIds(dir'[cmd'.target]) = Created(calls')
          /\ RecordIds(dir[cmd'.target]) \cap Created(calls') = {}
          /\ (RecordIds(dir[cmd'.target]) \cap remote) \subseteq Orphans(dir', remote')
  /\ cmd'.op \in Removes => (remote \ remote') \subseteq RecordIds(dir[cmd'.lookup])

C10_Overwrite == [][C10_OverwriteStep]_vars

C10_Witness ==
  /\ cmd.op = "configure-vpc"
  /\ cmd.name = <<"a", "_", "b">>
  /\ err = NoError
  /\ ~prevEmpty
  /\ nextId = 7
  /\ Cardinality(Orphans(dir, remote)) = 3
  /\ Cardinality(remote) = 6
====
